---- MODULE Spec2Model ----
(***************************************************************************)
(* Dashboard client of the transcription backend:                          *)
(*   - webui/dist/assets/js/js_core/funcionalidades.js : the SSE handler   *)
(*     (connectSSE), the polling fetch (updateDashboardCards), the         *)
(*     structured upload form (DOMContentLoaded handler at line 409), the  *)
(*     transcription list (loadCompletedTranscriptions) and the simple     *)
(*     upload (setupUploadArea);                                           *)
(*   - frontend/src/pages/UploadPage.jsx : the React batch upload.         *)
(* Each part has its own specification over the shared variable list; a    *)
(* specification leaves the variables of the other parts unchanged.        *)
(***************************************************************************)
EXTENDS Integers, Sequences, FiniteSets, TLC

\* ------------------------------------------------------------------ bounds
\* Number of payloads (push events and polling responses) handled in a run.
MaxUpdates == 2
\* Number of polling fetches issued in a run (the initial one included).
MaxPolls == 2
\* Number of files of the largest selection offered to an upload form.
MaxFiles == 2
\* Number of module-list fetches pending when the user may start another.
MaxFetches == 2
\* Number of actions of the user on the structured form in a run: edits of
\* its inputs and clicks on its submit button.
MaxEdits == 5
\* Number of structured submits that pass validation in a run.
MaxBatches == 1
\* Number of files of the largest drop on the React upload page.
MaxDropped == 3
\* Number of entries of the longest answer of GET /api/transcriptions.
MaxRows == 2
\* Number of times the 30-second timer of the transcription list fires in a run.
MaxTicks == 2
\* Number of clicks on the submit button of the simple upload in a run.
MaxClicks == 2

\* ------------------------------------------------- JSON values and DOM text
\* A JSON member: missing (undefined), null, or a number.  System metrics are
\* carried in thousandths so that toFixed has something to round.
Undef == [t |-> "undef", n |-> 0]
Null == [t |-> "null", n |-> 0]
Num(n) == [t |-> "num", n |-> n]

\* The text content of a DOM element.
Txt(s) == [kind |-> s, digits |-> 0, units |-> 0]
\* What the page's markup holds before any script wrote to the element.
Markup == Txt("markup")
Placeholder == Txt("--")
Erro == Txt("Erro")
EmptyText == Txt("")

RECURSIVE Pow10(_)
Pow10(d) == IF d = 0 THEN 1 ELSE 10 * Pow10(d - 1)

\* Number.prototype.toFixed(d) of x thousandths: d decimals, rounded half up.
ToFixed(x, d) ==
    [kind |-> "fixed", digits |-> d, units |-> (x * Pow10(d) + 500) \div 1000]

\* element.textContent = v for a JSON member that is not undefined: a number
\* is shown by its shortest decimal form, null as the empty string.
Str(v) == IF v.t = "num" THEN [kind |-> "str", digits |-> 0, units |-> v.n]
          ELSE EmptyText

IsNumber(d) == d.kind \in {"str", "fixed"}

\* ---------------------------------------------------------- metric fields
SystemFields == {"cpu", "ram", "ramUsed", "ramTotal"}
QueueFields == {"total", "queueWeb", "queueGdrive"}
Fields == SystemFields \cup QueueFields

\* The order in which both handlers write the system elements.
SysOrder == <<"cpu", "ram", "ramUsed", "ramTotal">>

\* The toFixed precision of each system element.
Digits(f) == IF f \in {"cpu", "ram"} THEN 1 ELSE 2

\* data.system.<member> for the element f.
SysMember(sys, f) ==
    CASE f = "cpu" -> sys.cpu_percent
      [] f = "ram" -> sys.memory_percent
      [] f = "ramUsed" -> sys.memory_used_gb
      [] f = "ramTotal" -> sys.memory_total_gb

\* data.queue.<member> of a push event for the element f.
QueueMember(q, f) ==
    CASE f = "total" -> q.total_transcriptions
      [] f = "queueWeb" -> q.web_size
      [] f = "queueGdrive" -> q.gdrive_size

\* data.<member> of a polling response for the element f.
PollMember(data, f) ==
    CASE f = "total" -> data.total_transcriptions
      [] f = "queueWeb" -> data.queue_web_size
      [] f = "queueGdrive" -> data.queue_gdrive_size

\* ------------------------------------------------------------- payloads
Sys(c, m, u, t) ==
    [present |-> TRUE, cpu_percent |-> c, memory_percent |-> m,
     memory_used_gb |-> u, memory_total_gb |-> t]
NoSys ==
    [present |-> FALSE, cpu_percent |-> Undef, memory_percent |-> Undef,
     memory_used_gb |-> Undef, memory_total_gb |-> Undef]
Queue(t, w, g) ==
    [present |-> TRUE, total_transcriptions |-> t, web_size |-> w, gdrive_size |-> g]
NoQueue ==
    [present |-> FALSE, total_transcriptions |-> Undef, web_size |-> Undef,
     gdrive_size |-> Undef]
Workers(w, g) == [present |-> TRUE, web |-> w, gdrive |-> g]
NoWorkers == [present |-> FALSE, web |-> "", gdrive |-> ""]
\* data.workers is truthy but holds no web.status and no gdrive.status: a
\* number, a string, an object of another shape.
WrongWorkers == [present |-> TRUE, web |-> "", gdrive |-> ""]
Metrics(speed, avg) ==
    [present |-> TRUE, avg_transcription_speed_per_model |-> speed,
     avg_process_time_sec |-> avg]
NoMetrics ==
    [present |-> FALSE, avg_transcription_speed_per_model |-> <<>>,
     avg_process_time_sec |-> Undef]

Event(s, q, w) == [parsed |-> TRUE, system |-> s, queue |-> q, workers |-> w]
\* event.data that JSON.parse rejects.
Malformed == [parsed |-> FALSE, system |-> NoSys, queue |-> NoQueue, workers |-> NoWorkers]

\* The push events the backend is let send in a run.
SSEEvents ==
    { Event(Sys(Num(12340), Num(40050), Num(2004), Num(8000)), NoQueue, NoWorkers),
      Event(Sys(Num(99950), Undef, Undef, Undef), NoQueue, NoWorkers),
      Event(Sys(Num(1000), Null, Num(3000), Undef), NoQueue, NoWorkers),
      Event(NoSys, Queue(Num(5), Num(1), Num(0)), NoWorkers),
      Event(NoSys, Queue(Undef, Num(2), Undef), NoWorkers),
      Event(NoSys, NoQueue, Workers("running", "running")),
      Event(Sys(Num(50000), Num(50000), Num(4000), Num(8000)),
            Queue(Num(7), Num(0), Num(3)), Workers("running", "stopped")),
      Event(Sys(Null, Num(50000), Num(4000), Num(8000)), NoQueue,
            Workers("running", "running")),
      Event(NoSys, NoQueue, WrongWorkers),
      Malformed }

Detailed(t, w, g, s, m) ==
    [total_transcriptions |-> t, queue_web_size |-> w, queue_gdrive_size |-> g,
     system |-> s, metrics |-> m]
NoData == Detailed(Undef, Undef, Undef, NoSys, NoMetrics)

\* The outcomes of GET /api/status/detailed in a run: status "ok" is a 2xx
\* response with a JSON body, "http" a non-2xx response, "net" a rejected fetch.
PollResponses ==
    { [status |-> "ok",
       data |-> Detailed(Num(6), Num(2), Num(1),
                         Sys(Num(20000), Num(60000), Num(5000), Num(8000)),
                         Metrics(<<[model |-> "base", v |-> Num(31416)]>>, Num(12000)))],
      [status |-> "ok",
       data |-> Detailed(Num(9), Undef, Undef, NoSys, Metrics(<<>>, Null))],
      [status |-> "ok",
       data |-> Detailed(Undef, Undef, Num(4), Sys(Undef, Num(70000), Undef, Undef),
                         NoMetrics)],
      [status |-> "ok",
       data |-> Detailed(Num(3), Num(3), Num(3), Sys(Num(30000), Num(30000), Null, Num(8000)),
                         Metrics(<<[model |-> "base", v |-> Null]>>, Num(500)))],
      [status |-> "http", data |-> NoData],
      [status |-> "net", data |-> NoData] }

\* ------------------------------------------------------------------ state
VARIABLES
    display,        \* textContent of the seven metric elements
    systemStatus,   \* textContent of #system-status
    perfList,       \* innerHTML of #model-performance-list
    avgProcessTime, \* textContent of #avg-process-time
    esState,        \* the EventSource: unsupported, connecting, open, closed
    pollInflight,   \* the polling fetches issued and not yet settled
    nextReq,        \* the number of the next polling fetch
    console,        \* what the handlers wrote to the console, in order
    shownReq        \* per element, the polling fetch whose number it shows (0: none)

dashVars == <<display, systemStatus, perfList, avgProcessTime, esState,
              pollInflight, nextReq, console, shownReq>>

\* The structured upload form (DOMContentLoaded handler, lines 409-617).
VARIABLES
    courseOptions,     \* values of the options of #select-course after the "" one
    coursePlaceholder, \* text of its "" option
    courseValue,       \* courseSelect.value
    newCourseValue,    \* newCourseInput.value
    moduleOptions,     \* values of the options of #select-module after the "" one
    modulePlaceholder, \* text of its "" option
    moduleValue,       \* moduleSelect.value
    moduleDisabled,    \* moduleSelect.disabled
    newModuleValue,    \* newModuleInput.value
    newModuleDisabled, \* newModuleInput.disabled
    files,             \* fileInput.files
    submitDisabled,    \* submitBtn.disabled
    feedback,          \* text and class of #structured-upload-feedback
    batch,             \* the locals of the running submit handler
    requests,          \* the POSTs to /api/upload_structured of the latest submit
    uploadConsole,     \* its per-file console lines
    courseFetches,     \* pending GET /api/courses
    moduleFetches,     \* pending GET /api/courses/{course}/modules, by course
    edits,             \* the user's actions on the form so far (edits and submit clicks)
    submits            \* the submits that passed validation so far

selectVars == <<courseOptions, coursePlaceholder, courseValue, newCourseValue,
                moduleOptions, modulePlaceholder, moduleValue, moduleDisabled,
                newModuleValue, newModuleDisabled>>
formVars == <<selectVars, files, submitDisabled, feedback, batch, requests,
              uploadConsole, courseFetches, moduleFetches, edits, submits>>

\* The React upload page (UploadPage.jsx).
VARIABLES
    rFiles,          \* useState files
    rUploading,      \* useState uploading
    rUploadResults,  \* useState uploadResults
    rError,          \* useState error
    rCall,           \* the locals of the running handleUpload call
    rRequests        \* the posts to /api/v1/transcription/upload/ of the latest call

reactVars == <<rFiles, rUploading, rUploadResults, rError, rCall, rRequests>>

\* The list of completed transcriptions (loadCompletedTranscriptions) and the
\* simple upload (setupUploadArea) that refreshes it.
VARIABLES
    listFetches,     \* number of pending fetches of /api/transcriptions
    rows,            \* innerHTML of #completed-transcriptions-body
    listTimeouts,    \* pending setTimeout(loadCompletedTranscriptions, 1000)
    listTicks,       \* firings of setInterval(loadCompletedTranscriptions, 30000) so far
    simple,          \* #file-input, #submit-btn, #upload-feedback, the pending POST
    simpleClicks     \* clicks on #submit-btn so far

listVars == <<listFetches, rows, listTimeouts, listTicks, simple, simpleClicks>>

vars == <<dashVars, formVars, reactVars, listVars>>

Last(s) == s[Len(s)]

\* ------------------------------------------------- connectSSE (lines 34-108)
\* The index in SysOrder of the first member whose toFixed throws (5: none).
FirstThrow(sys) ==
    IF \E i \in 1..4 : SysMember(sys, SysOrder[i]).t = "null"
    THEN CHOOSE i \in 1..4 :
            /\ SysMember(sys, SysOrder[i]).t = "null"
            /\ \A j \in 1..(i - 1) : SysMember(sys, SysOrder[j]).t # "null"
    ELSE 5

SysThrows(sys) == sys.present /\ FirstThrow(sys) <= 4

\* The system elements the block writes before it ends or throws.
SysWritten(sys) ==
    IF sys.present THEN {SysOrder[i] : i \in 1..(FirstThrow(sys) - 1)} ELSE {}

\* cond !== undefined ? value.toFixed(d) : '--'
SysText(sys, f) ==
    IF SysMember(sys, f).t = "undef" THEN Placeholder
    ELSE ToFixed(SysMember(sys, f).n, Digits(f))

\* data.queue.<member> !== undefined ? data.queue.<member> : 0
SSEQueueText(q, f) ==
    IF QueueMember(q, f).t = "undef" THEN Str(Num(0)) ELSE Str(QueueMember(q, f))

\* The elements one push event writes, and what it writes to them.
SSEWritten(ev) ==
    IF ~ev.parsed THEN {}
    ELSE SysWritten(ev.system)
         \cup (IF ev.queue.present /\ ~SysThrows(ev.system) THEN QueueFields ELSE {})

SSEDisplay(disp, ev) ==
    [f \in Fields |->
        IF f \notin SSEWritten(ev) THEN disp[f]
        ELSE IF f \in SystemFields THEN SysText(ev.system, f)
        ELSE SSEQueueText(ev.queue, f)]

\* The overall status computed from data.workers.
OverallStatus(w) ==
    IF w.web = "running" /\ w.gdrive = "running" THEN Txt("Operacional")
    ELSE Txt("Problemas")

\* A handler that writes the status before it touches the metrics.
SSEStatusFirst(status, ev) ==
    IF ev.parsed /\ ev.workers.present THEN OverallStatus(ev.workers) ELSE status

SSEStatus(status, ev) ==
    IF ev.parsed /\ ~SysThrows(ev.system) /\ ev.workers.present
    THEN OverallStatus(ev.workers) ELSE status

\* What one run of a handler wrote to the console: the payload it logged
\* after parsing it (console.log) and whether its catch block ran
\* (console.error).
Entry(ch, d, logged, failed) ==
    [ch |-> ch, data |-> d, logged |-> logged, failed |-> failed]

SSEConsole(ev) ==
    Entry("sse", [status |-> "ok", sse |-> ev, poll |-> NoData], ev.parsed,
          ~ev.parsed \/ SysThrows(ev.system))

\* eventSource.onmessage
OnMessage(ev) ==
    /\ esState = "open"
    /\ Len(console) < MaxUpdates
    /\ display' = SSEDisplay(display, ev)
    /\ systemStatus' = SSEStatus(systemStatus, ev)
    /\ console' = Append(console, SSEConsole(ev))
    /\ shownReq' = [f \in Fields |-> IF f \in SSEWritten(ev) THEN 0 ELSE shownReq[f]]
    /\ UNCHANGED <<formVars, reactVars, listVars>>
    /\ UNCHANGED <<perfList, avgProcessTime, esState, pollInflight, nextReq>>

\* eventSource.onerror; the EventSource then reconnects or gives up.
OnError ==
    /\ esState \in {"connecting", "open"}
    /\ systemStatus' = Txt("Erro na conexao")
    /\ esState' \in {"connecting", "closed"}
    /\ UNCHANGED <<formVars, reactVars, listVars>>
    /\ UNCHANGED <<display, perfList, avgProcessTime, pollInflight, nextReq,
                   console, shownReq>>

\* The EventSource establishes the connection (no handler is registered).
SSEOpen ==
    /\ esState = "connecting"
    /\ esState' = "open"
    /\ UNCHANGED <<formVars, reactVars, listVars>>
    /\ UNCHANGED <<display, systemStatus, perfList, avgProcessTime, pollInflight,
                   nextReq, console, shownReq>>

\* ------------------------------------- updateDashboardCards (lines 111-153)
\* The elements the catch block overwrites with 'Erro'.
ErroFields == {"total", "queueWeb", "queueGdrive", "cpu", "ram"}

\* The try block ends in the catch block: fetch rejected, response not ok, or
\* a toFixed of a member that is not a number.
PollFails(resp) == resp.status # "ok" \/ SysThrows(resp.data.system)

\* The elements that show a value of the response once the handler returns.
PollWritten(resp) ==
    IF resp.status # "ok" THEN {}
    ELSE ({f \in QueueFields : PollMember(resp.data, f).t # "undef"}
          \cup SysWritten(resp.data.system))
         \ (IF PollFails(resp) THEN ErroFields ELSE {})

\* Those of them that show a number of the response.
PollValued(resp) ==
    {f \in PollWritten(resp) :
        IF f \in SystemFields THEN SysMember(resp.data.system, f).t = "num"
        ELSE PollMember(resp.data, f).t = "num"}

PollDisplay(disp, resp) ==
    [f \in Fields |->
        IF PollFails(resp) /\ f \in ErroFields THEN Erro
        ELSE IF f \notin PollWritten(resp) THEN disp[f]
        ELSE IF f \in SystemFields THEN SysText(resp.data.system, f)
        ELSE Str(PollMember(resp.data, f))]

\* updatePerformanceMetrics (lines 155-183): the list of per-model speeds.
PerfItems(speed) ==
    [i \in DOMAIN speed |->
        [model |-> speed[i].model,
         text |-> IF speed[i].v.t = "null" THEN Placeholder
                  ELSE ToFixed(speed[i].v.n, 2)]]

PerfListText(old, m) ==
    IF ~m.present THEN old
    ELSE IF Len(m.avg_transcription_speed_per_model) > 0
    THEN [kind |-> "list", items |-> PerfItems(m.avg_transcription_speed_per_model)]
    ELSE [kind |-> "none", items |-> <<>>]

AvgProcessText(old, m) ==
    IF ~m.present THEN old
    ELSE IF m.avg_process_time_sec.t = "num"
    THEN ToFixed(m.avg_process_time_sec.n, 2)
    ELSE Txt("-- segundos")

\* A catch block that also reports the failure in #system-status.
PollStatusErro(status, resp) == IF PollFails(resp) THEN Erro ELSE status

\* #system-status after updateDashboardCards: neither the try block nor the
\* catch block writes it.
PollStatus(status, resp) == status

PollConsole(resp) ==
    Entry("poll", [status |-> resp.status, sse |-> Malformed, poll |-> resp.data],
          resp.status = "ok", PollFails(resp))


\* A timer that is cleared by the first failed fetch.
PollTickUnlessFailed ==
    /\ nextReq <= MaxPolls
    /\ \A i \in DOMAIN console : ~(console[i].ch = "poll" /\ console[i].failed)
    /\ pollInflight' = pollInflight \cup {nextReq}
    /\ nextReq' = nextReq + 1
    /\ UNCHANGED <<formVars, reactVars, listVars>>
    /\ UNCHANGED <<display, systemStatus, perfList, avgProcessTime, esState,
                   console, shownReq>>

\* A timer that runs only while the EventSource is open.
PollTickWhenOpen ==
    /\ nextReq <= MaxPolls
    /\ esState = "open"
    /\ pollInflight' = pollInflight \cup {nextReq}
    /\ nextReq' = nextReq + 1
    /\ UNCHANGED <<formVars, reactVars, listVars>>
    /\ UNCHANGED <<display, systemStatus, perfList, avgProcessTime, esState,
                   console, shownReq>>

\* setInterval(updateDashboardCards, 10000) fires: the fetch is issued
\* whatever the state of the earlier ones.
PollTick ==
    /\ nextReq <= MaxPolls
    /\ pollInflight' = pollInflight \cup {nextReq}
    /\ nextReq' = nextReq + 1
    /\ UNCHANGED <<formVars, reactVars, listVars>>
    /\ UNCHANGED <<display, systemStatus, perfList, avgProcessTime, esState,
                   console, shownReq>>

\* The fetch of request r settles with resp and the rest of the function runs.
PollSettle(r, resp) ==
    /\ r \in pollInflight
    /\ Len(console) < MaxUpdates
    /\ pollInflight' = pollInflight \ {r}
    /\ display' = PollDisplay(display, resp)
    /\ perfList' = IF PollFails(resp) THEN perfList
                   ELSE PerfListText(perfList, resp.data.metrics)
    /\ avgProcessTime' = IF PollFails(resp) THEN avgProcessTime
                         ELSE AvgProcessText(avgProcessTime, resp.data.metrics)
    /\ console' = Append(console, PollConsole(resp))
    /\ shownReq' = [f \in Fields |->
                       IF f \in PollValued(resp) THEN r
                       ELSE IF f \in PollWritten(resp) \/ (PollFails(resp) /\ f \in ErroFields)
                       THEN 0
                       ELSE shownReq[f]]
    /\ systemStatus' = PollStatus(systemStatus, resp)
    /\ UNCHANGED <<formVars, reactVars, listVars>>
    /\ UNCHANGED <<esState, nextReq>>

\* ============================ structured upload form (lines 409-617)
\* Strings whose characters matter are sequences of characters.
RECURSIVE TrimLeft(_)
TrimLeft(s) == IF s # <<>> /\ Head(s) = " " THEN TrimLeft(Tail(s)) ELSE s
RECURSIVE TrimRight(_)
TrimRight(s) ==
    IF s # <<>> /\ s[Len(s)] = " " THEN TrimRight(SubSeq(s, 1, Len(s) - 1)) ELSE s
\* String.prototype.trim
Trim(s) == TrimRight(TrimLeft(s))

\* a || b for strings: the empty string is falsy.
OrElse(a, b) == IF a # <<>> THEN a ELSE b

\* What the user is let type into a text input.
Typed == {<<>>, <<" ">>, <<" ", "n", " ">>}
\* The answers of GET /api/courses and GET /api/courses/{course}/modules:
\* names as the backend stores them, padding included.  Status "404" is that
\* response, "error" any other non-2xx response or a rejected fetch.
CourseLists == {<<>>, <<<<"c">>, <<" ", "d">>>>}
ModulesOf(course) == IF course = <<"c">> THEN <<<<"m", " ">>>> ELSE <<<<"p">>>>
ModuleLists(course) == {<<>>, ModulesOf(course)}
ListResponses(lists) ==
    {[status |-> "ok", list |-> l] : l \in lists}
    \cup {[status |-> st, list |-> <<>>] : st \in {"404", "error"}}

\* The selections the file input offers, up to MaxFiles files.
AllFiles == <<"b.mp3", "a.mp3", "c.mp3", "e.mp3", "d.mp3">>
FileLists == {SubSeq(AllFiles, 1, k) : k \in 0..MaxFiles}

\* The outcomes of one POST /api/upload_structured: a 2xx response with a JSON
\* body; a non-2xx response whose JSON body has a detail, has none, or cannot
\* be parsed; a rejected fetch.
UploadOutcomes == {"ok", "detail", "nodetail", "badbody", "net"}

\* error.message of the per-file catch block.
ErrorMessage(o) ==
    CASE o = "detail" -> "detail"
      [] o = "nodetail" -> "Erro status"
      [] o = "badbody" -> "json error"
      [] o = "net" -> "network error"

\* showStructuredFeedback(message, type): the message by its template and the
\* values filled in.
Fb(kind, type, file, msg, k, n, c, m) ==
    [kind |-> kind, type |-> type, file |-> file, msg |-> msg, k |-> k, n |-> n,
     course |-> c, module |-> m]
FbText(kind, type) == Fb(kind, type, "", "", 0, 0, <<>>, <<>>)

\* The effective course and module as the specification resolves them: the
\* selection when it is non-empty, else the trimmed text of the new-name input.
EffectiveCourse == IF courseValue # <<>> THEN courseValue ELSE Trim(newCourseValue)
EffectiveModule == IF moduleValue # <<>> THEN moduleValue ELSE Trim(newModuleValue)

\* The locals of the submit handler: of the running call, or as the latest
\* call left them.  effectiveCourse is no local: it records, for the
\* properties, what the inputs read at lines 498-499 resolve to by the rule
\* above.
NoBatch ==
    [pc |-> "idle", files |-> <<>>, i |-> 0, successCount |-> 0, allSuccess |-> TRUE,
     targetCourse |-> <<>>, targetModule |-> <<>>, effectiveCourse |-> <<>>]

\* let targetCourse = selectedCourse || newCourse (lines 498-505).
TargetCourse == OrElse(Trim(courseValue), Trim(newCourseValue))
TargetModule == OrElse(Trim(moduleValue), Trim(newModuleValue))

\* A validation that does not look at the module.
ValidationNoModule ==
    IF TargetCourse = <<>> THEN "selecione um curso"
    ELSE IF Len(files) = 0 THEN "selecione um arquivo"
    ELSE ""

\* The three validations, in order (lines 508-519): the message of the first
\* that fails, "" when all pass.
Validation ==
    IF TargetCourse = <<>> THEN "selecione um curso"
    ELSE IF TargetModule = <<>> THEN "selecione um modulo"
    ELSE IF Len(files) = 0 THEN "selecione um arquivo"
    ELSE ""

\* A request that reads the course and module inputs anew for every file.
RequestLive(b, i) ==
    [file |-> b.files[i], course |-> TargetCourse, module |-> TargetModule,
     outcome |-> "pending"]

\* The request for file number i (lines 531-541): its form data, and its
\* outcome once the fetch has settled.
Request(b, i) ==
    [file |-> b.files[i], course |-> b.targetCourse, module |-> b.targetModule,
     outcome |-> "pending"]

\* What the network saw of a settled request: whether it succeeded.
Outcome(o) == IF o = "ok" THEN "ok" ELSE "failed"

\* A handler that issues the requests of all files at once.
FirstRequestsAll(b) == [j \in 1..Len(b.files) |-> Request(b, j)]

\* The requests in flight when the handler reaches its first await.
FirstRequests(b) == <<Request(b, 1)>>

\* A submit handler that disables the button before it validates.
SubmitDisablesFirst ==
    /\ edits < MaxEdits
    /\ edits' = edits + 1
    /\ ~submitDisabled
    /\ IF Validation # ""
       THEN /\ feedback' = FbText(Validation, "warning")
            /\ submitDisabled' = TRUE
            /\ UNCHANGED <<batch, requests, uploadConsole, submits>>
       ELSE /\ submits < MaxBatches
            /\ submits' = submits + 1
            /\ submitDisabled' = TRUE
            /\ feedback' = FbText("Enviando arquivos...", "info")
            /\ batch' = [pc |-> "fetch", files |-> files, i |-> 1, successCount |-> 0,
                         allSuccess |-> TRUE, targetCourse |-> TargetCourse,
                         targetModule |-> TargetModule,
                         effectiveCourse |-> EffectiveCourse]
            /\ requests' = FirstRequests(batch')
            /\ uploadConsole' = <<>>
    /\ UNCHANGED <<selectVars, files, courseFetches, moduleFetches>>
    /\ UNCHANGED <<dashVars, reactVars, listVars>>

\* The submit handler up to its first await: validation, then the request
\* for the first file.
Submit ==
    /\ edits < MaxEdits
    /\ edits' = edits + 1
    /\ ~submitDisabled
    /\ IF Validation # ""
       THEN /\ feedback' = FbText(Validation, "warning")
            /\ UNCHANGED <<submitDisabled, batch, requests, uploadConsole, submits>>
       ELSE /\ submits < MaxBatches
            /\ submits' = submits + 1
            /\ submitDisabled' = TRUE
            /\ feedback' = FbText("Enviando arquivos...", "info")
            /\ batch' = [pc |-> "fetch", files |-> files, i |-> 1, successCount |-> 0,
                         allSuccess |-> TRUE, targetCourse |-> TargetCourse,
                         targetModule |-> TargetModule,
                         effectiveCourse |-> EffectiveCourse]
            /\ requests' = FirstRequests(batch')
            /\ uploadConsole' = <<>>
    /\ UNCHANGED <<selectVars, files, courseFetches, moduleFetches>>
    /\ UNCHANGED <<dashVars, reactVars, listVars>>

\* The synchronous part of the two change listeners of #select-course (lines
\* 458-465 and 601-605) for the value v: the module dropdown is reset and
\* enabled by v, the module fetch is issued, the new-course text is cleared.
ChangeModuleFetches(v) == IF v # <<>> THEN Append(moduleFetches, v) ELSE moduleFetches
\* A change listener that leaves the new-course text alone.
KeepNewCourse(v) == newCourseValue

ChangeNewCourse(v) == IF v # <<>> THEN <<>> ELSE newCourseValue

CourseChangeListeners(v) ==
    /\ moduleOptions' = <<>>
    /\ modulePlaceholder' = "Selecione um Modulo"
    /\ moduleValue' = <<>>
    /\ newModuleDisabled' = (v = <<>>)
    /\ moduleDisabled' = (v = <<>>)
    /\ moduleFetches' = ChangeModuleFetches(v)
    /\ newCourseValue' = ChangeNewCourse(v)

\* A counter that counts every file attempted.
AfterOutcomeCountAll(b, o) ==
    [b EXCEPT !.successCount = @ + 1,
              !.allSuccess = IF o = "ok" THEN @ ELSE FALSE,
              !.i = @ + 1]

\* The per-file feedback and the running counters after the outcome o of the
\* request for file b.i (lines 543-557).
AfterOutcome(b, o) ==
    [b EXCEPT !.successCount = IF o = "ok" THEN @ + 1 ELSE @,
              !.allSuccess = IF o = "ok" THEN @ ELSE FALSE,
              !.i = @ + 1]

FileFeedback(b, o) ==
    IF o = "ok"
    THEN Fb("Enviando: k/n arquivos...", "info", "", "", b.successCount + 1,
            Len(b.files), <<>>, <<>>)
    ELSE Fb("Erro ao enviar file: msg", "danger", b.files[b.i], ErrorMessage(o), 0, 0,
            <<>>, <<>>)

ConsoleLine(b, o) ==
    [level |-> IF o = "ok" THEN "log" ELSE "error", file |-> b.files[b.i]]

\* The final message of the batch (lines 560-576).
Summary(b) ==
    IF b.allSuccess
    THEN Fb("k arquivo(s) enviado(s) com sucesso", "success", "", "", b.successCount, 0,
            b.targetCourse, b.targetModule)
    ELSE Fb("Alguns arquivos (k de n) nao puderam ser enviados", "danger", "", "",
            Len(b.files) - b.successCount, Len(b.files), <<>>, <<>>)

\* A loop that reads the length of the file input anew at every turn.
MoreFilesLive(b) == b.i <= Len(b.files) /\ b.i <= Len(files)

\* A loop that gives up at the first failure.
MoreFilesAbort(b) == b.i <= Len(b.files) /\ b.allSuccess

\* The loop condition i < files.length, after the i++ that follows a file.
MoreFiles(b) == b.i <= Len(b.files)

\* The request for file batch.i settles with outcome o; the handler runs on
\* to its next await (the request for the next file) or to its end, where it
\* reloads the courses and, when the selection is still the target course,
\* dispatches the change event that reloads the modules.
UploadSettle(o) ==
    /\ batch.pc = "fetch"
    /\ uploadConsole' = Append(uploadConsole, ConsoleLine(batch, o))
    /\ LET b == AfterOutcome(batch, o)
           settled == [requests EXCEPT ![batch.i].outcome = Outcome(o)]
       IN IF MoreFiles(b)
          THEN /\ batch' = b
               /\ feedback' = FileFeedback(batch, o)
               /\ requests' = Append(settled, Request(b, b.i))
               /\ UNCHANGED <<selectVars, submitDisabled, courseFetches, moduleFetches>>
          ELSE /\ batch' = [b EXCEPT !.pc = "idle"]
               /\ feedback' = Summary(b)
               /\ submitDisabled' = FALSE
               /\ requests' = settled
               /\ IF b.allSuccess
                  THEN /\ courseFetches' = courseFetches + 1
                       /\ IF courseValue = b.targetCourse
                          THEN /\ CourseChangeListeners(courseValue)
                               /\ UNCHANGED <<courseOptions, coursePlaceholder,
                                              courseValue, newModuleValue>>
                          ELSE UNCHANGED <<selectVars, moduleFetches>>
                  ELSE UNCHANGED <<selectVars, courseFetches, moduleFetches>>
    /\ UNCHANGED files
    /\ UNCHANGED <<dashVars, reactVars, listVars>>
    /\ UNCHANGED <<edits, submits>>

\* ------------------------------------------------- the user's form edits
\* The user picks an option of #select-course; the change event runs both
\* listeners.
SelectCourse(v) ==
    /\ edits < MaxEdits
    /\ edits' = edits + 1
    /\ v \in {<<>>} \cup {courseOptions[i] : i \in DOMAIN courseOptions}
    /\ v # courseValue
    /\ v # <<>> => Len(moduleFetches) < MaxFetches
    /\ courseValue' = v
    /\ CourseChangeListeners(v)
    /\ UNCHANGED <<courseOptions, coursePlaceholder, newModuleValue>>
    /\ UNCHANGED <<files, submitDisabled, feedback, batch, requests, uploadConsole,
                   courseFetches>>
    /\ UNCHANGED <<dashVars, reactVars, listVars>>
    /\ UNCHANGED submits

\* The user edits #new-course to the text t; the input listener (lines
\* 582-591) runs.
TypeNewCourse(t) ==
    /\ edits < MaxEdits
    /\ edits' = edits + 1
    /\ t # newCourseValue
    /\ newCourseValue' = t
    /\ IF Trim(t) # <<>>
       THEN /\ courseValue' = <<>>
            /\ moduleOptions' = <<>>
            /\ modulePlaceholder' = "Selecione um Curso Primeiro"
            /\ moduleValue' = <<>>
            /\ moduleDisabled' = TRUE
            /\ newModuleDisabled' = TRUE
            /\ newModuleValue' = <<>>
       ELSE UNCHANGED <<courseValue, moduleOptions, modulePlaceholder, moduleValue,
                        moduleDisabled, newModuleDisabled, newModuleValue>>
    /\ UNCHANGED <<courseOptions, coursePlaceholder>>
    /\ UNCHANGED <<files, submitDisabled, feedback, batch, requests, uploadConsole,
                   courseFetches, moduleFetches>>
    /\ UNCHANGED <<dashVars, reactVars, listVars>>
    /\ UNCHANGED submits

\* The user edits #new-module to the text t; the input listener (lines
\* 594-598) runs.
TypeNewModule(t) ==
    /\ edits < MaxEdits
    /\ edits' = edits + 1
    /\ ~newModuleDisabled
    /\ t # newModuleValue
    /\ newModuleValue' = t
    /\ moduleValue' = IF Trim(t) # <<>> THEN <<>> ELSE moduleValue
    /\ UNCHANGED <<courseOptions, coursePlaceholder, courseValue, newCourseValue,
                   moduleOptions, modulePlaceholder, moduleDisabled, newModuleDisabled>>
    /\ UNCHANGED <<files, submitDisabled, feedback, batch, requests, uploadConsole,
                   courseFetches, moduleFetches>>
    /\ UNCHANGED <<dashVars, reactVars, listVars>>
    /\ UNCHANGED submits

\* A change listener that leaves the new-module text alone.
KeepNewModule(v) == newModuleValue

\* The change listener of #select-module (lines 608-612) for the value v.
ChangeNewModule(v) == IF v # <<>> THEN <<>> ELSE newModuleValue

\* The user picks an option of #select-module; the change listener (lines
\* 608-612) runs.
SelectModule(v) ==
    /\ edits < MaxEdits
    /\ edits' = edits + 1
    /\ ~moduleDisabled
    /\ v \in {<<>>} \cup {moduleOptions[i] : i \in DOMAIN moduleOptions}
    /\ v # moduleValue
    /\ moduleValue' = v
    /\ newModuleValue' = ChangeNewModule(v)
    /\ UNCHANGED <<courseOptions, coursePlaceholder, courseValue, newCourseValue,
                   moduleOptions, modulePlaceholder, moduleDisabled, newModuleDisabled>>
    /\ UNCHANGED <<files, submitDisabled, feedback, batch, requests, uploadConsole,
                   courseFetches, moduleFetches>>
    /\ UNCHANGED <<dashVars, reactVars, listVars>>
    /\ UNCHANGED submits

\* The user picks the files of #structured-file-input.
ChooseFiles(fl) ==
    /\ edits < MaxEdits
    /\ edits' = edits + 1
    /\ fl # files
    /\ files' = fl
    /\ UNCHANGED <<selectVars, submitDisabled, feedback, batch, requests, uploadConsole,
                   courseFetches, moduleFetches>>
    /\ UNCHANGED <<dashVars, reactVars, listVars>>
    /\ UNCHANGED submits

\* ------------------------------------------------------ the list loaders
\* A loader that takes every non-2xx response for an error.
ReportedWith404(resp) == resp.status # "ok"

\* The responses a loader reports through its catch block: those that are
\* neither 2xx nor 404 (lines 433-440 and 469-475).
Reported(resp) == resp.status \notin {"ok", "404"}

\* A pending fetch of loadCourses (lines 430-455) settles.  Assigning
\* innerHTML leaves the "" option alone and selected.
CoursesSettle(resp) ==
    /\ courseFetches > 0
    /\ courseFetches' = courseFetches - 1
    /\ IF ~Reported(resp)
       THEN /\ courseOptions' = resp.list
            /\ coursePlaceholder' = IF resp.status = "ok" THEN "Selecione um Curso"
                                    ELSE "Nenhum curso encontrado"
            /\ courseValue' = <<>>
            /\ UNCHANGED feedback
       ELSE /\ feedback' = FbText("Erro ao carregar lista de cursos.", "danger")
            /\ UNCHANGED <<courseOptions, coursePlaceholder, courseValue>>
    /\ UNCHANGED <<newCourseValue, moduleOptions, modulePlaceholder, moduleValue,
                   moduleDisabled, newModuleValue, newModuleDisabled>>
    /\ UNCHANGED <<files, submitDisabled, batch, requests, uploadConsole, moduleFetches>>
    /\ UNCHANGED <<dashVars, reactVars, listVars>>
    /\ UNCHANGED <<edits, submits>>

RemoveAt(s, k) == SubSeq(s, 1, k - 1) \o SubSeq(s, k + 1, Len(s))

\* The pending module fetch number k (lines 467-491) settles: the modules are
\* appended to whatever #select-module holds by then.
ModulesSettle(k, resp) ==
    /\ k \in DOMAIN moduleFetches
    /\ moduleFetches' = RemoveAt(moduleFetches, k)
    /\ IF resp.status = "ok" /\ Len(resp.list) > 0
       THEN /\ moduleOptions' = moduleOptions \o resp.list
            /\ UNCHANGED <<modulePlaceholder, moduleValue, feedback>>
       ELSE IF ~Reported(resp)
       THEN /\ moduleOptions' = <<>>
            /\ modulePlaceholder' = "Nenhum modulo encontrado"
            /\ moduleValue' = <<>>
            /\ UNCHANGED feedback
       ELSE /\ feedback' = Fb("Erro ao carregar modulos para course.", "danger", "", "",
                              0, 0, moduleFetches[k], <<>>)
            /\ UNCHANGED <<moduleOptions, modulePlaceholder, moduleValue>>
    /\ UNCHANGED <<courseOptions, coursePlaceholder, courseValue, newCourseValue,
                   moduleDisabled, newModuleValue, newModuleDisabled>>
    /\ UNCHANGED <<files, submitDisabled, batch, requests, uploadConsole, courseFetches>>
    /\ UNCHANGED <<dashVars, reactVars, listVars>>
    /\ UNCHANGED <<edits, submits>>

\* The form as the page's markup gives it, with the first loadCourses()
\* (line 616) pending.
FormStart ==
    /\ courseOptions = <<>>
    /\ coursePlaceholder = "markup"
    /\ courseValue = <<>>
    /\ newCourseValue = <<>>
    /\ moduleOptions = <<>>
    /\ modulePlaceholder = "markup"
    /\ moduleValue = <<>>
    /\ moduleDisabled = TRUE
    /\ newModuleValue = <<>>
    /\ newModuleDisabled = TRUE
    /\ files = <<>>
    /\ submitDisabled = FALSE
    /\ feedback = FbText("markup", "")
    /\ batch = NoBatch
    /\ requests = <<>>
    /\ uploadConsole = <<>>
    /\ courseFetches = 1
    /\ moduleFetches = <<>>
    /\ edits = 0
    /\ submits = 0

FormNext ==
    \/ Submit
    \/ \E o \in UploadOutcomes : UploadSettle(o)
    \/ \E v \in {<<>>, <<"c">>, <<" ", "d">>} : SelectCourse(v)
    \/ \E t \in Typed : TypeNewCourse(t)
    \/ \E t \in Typed : TypeNewModule(t)
    \/ \E v \in {<<>>, <<"m", " ">>, <<"p">>} : SelectModule(v)
    \/ \E fl \in FileLists : ChooseFiles(fl)
    \/ \E resp \in ListResponses(CourseLists) : CoursesSettle(resp)
    \/ \E k \in DOMAIN moduleFetches :
          \E resp \in ListResponses(ModuleLists(moduleFetches[k])) : ModulesSettle(k, resp)

\* ====================== React upload page (frontend/src/pages/UploadPage.jsx)
\* The file lists a drop may deliver, up to MaxDropped files; two files may
\* bear the same name.
FileNames == {"a.mp3", "b.mp3"}
DropLists == UNION {[1..k -> FileNames] : k \in 0..MaxDropped}

\* The outcomes of one axios.post: a 2xx response; a non-2xx response whose
\* body has a detail, has none, or cannot be parsed; no response at all.
AxiosOutcomes == {"ok", "detail", "nodetail", "badbody", "net"}

\* An entry that never takes the backend's detail.
ResultNoDetail(file, o) ==
    IF o = "ok"
    THEN [filename |-> file, status |-> "success", taskId |-> "task_id",
          message |-> "message"]
    ELSE [filename |-> file, status |-> "error", taskId |-> "",
          message |-> "Erro no upload"]

\* The entry pushed for a file (lines 51-62).
Result(file, o) ==
    IF o = "ok"
    THEN [filename |-> file, status |-> "success", taskId |-> "task_id",
          message |-> "message"]
    ELSE [filename |-> file, status |-> "error", taskId |-> "",
          message |-> IF o = "detail" THEN "detail" ELSE "Erro no upload"]

\* A list that grows at its front.
PushFront(results, r) == <<r>> \o results

\* results.push(...)
Push(results, r) == Append(results, r)

NoCall == [pc |-> "idle", files |-> <<>>, i |-> 0, results |-> <<>>]

\* An upload button that is disabled for an empty list only.
ButtonDisabledWhenEmpty == Len(rFiles) = 0

\* The upload button: disabled={uploading || files.length === 0}.
ButtonDisabled == rUploading \/ Len(rFiles) = 0

\* onDrop (lines 13-17)
OnDrop(fl) ==
    /\ rFiles' = fl
    /\ UNCHANGED <<rUploading, rUploadResults, rError, rCall, rRequests>>
    /\ UNCHANGED <<dashVars, formVars, listVars>>

\* removeFile (lines 75-77)
RemoveFile(name) ==
    /\ \E i \in DOMAIN rFiles : rFiles[i] = name
    /\ rFiles' = SelectSeq(rFiles, LAMBDA f : f # name)
    /\ UNCHANGED <<rUploading, rUploadResults, rError, rCall, rRequests>>
    /\ UNCHANGED <<dashVars, formVars, listVars>>

\* handleUpload up to its first await (lines 27-45), over the files of the
\* render it was created in.
HandleUploadCall ==
    /\ IF Len(rFiles) = 0
       THEN /\ rError' = "Por favor, selecione pelo menos um arquivo"
            /\ UNCHANGED <<rUploading, rUploadResults, rCall, rRequests>>
       ELSE /\ rUploading' = TRUE
            /\ rError' = ""
            /\ rUploadResults' = <<>>
            /\ rCall' = [pc |-> "post", files |-> rFiles, i |-> 1, results |-> <<>>]
            /\ rRequests' = <<[file |-> rFiles[1], outcome |-> "pending"]>>
    /\ UNCHANGED rFiles
    /\ UNCHANGED <<dashVars, formVars, listVars>>

\* A click on the upload button (onClick={handleUpload}), which the browser
\* delivers only while the button is enabled.
HandleUpload == ~ButtonDisabled /\ HandleUploadCall

\* The post for file rCall.i settles with outcome o (lines 45-73): the result
\* is pushed, then the next post is issued or the results are published.
PostSettle(o) ==
    /\ rCall.pc = "post"
    /\ LET results == Push(rCall.results, Result(rCall.files[rCall.i], o))
           settled == [rRequests EXCEPT ![rCall.i].outcome = Outcome(o)]
       IN IF rCall.i < Len(rCall.files)
          THEN /\ rCall' = [rCall EXCEPT !.i = @ + 1, !.results = results]
               /\ rRequests' = Append(settled, [file |-> rCall.files[rCall.i + 1],
                                                outcome |-> "pending"])
               /\ UNCHANGED <<rFiles, rUploading, rUploadResults>>
          ELSE /\ rCall' = [rCall EXCEPT !.pc = "idle", !.results = results]
               /\ rRequests' = settled
               /\ rUploadResults' = results
               /\ rUploading' = FALSE
               /\ rFiles' = <<>>
    /\ UNCHANGED rError
    /\ UNCHANGED <<dashVars, formVars, listVars>>

\* ============ transcription list and simple upload (lines 7-14, 186-320)
Sizes == <<"Bytes", "KB", "MB", "GB">>

RECURSIVE Pow1024(_)
Pow1024(i) == IF i = 0 THEN 1 ELSE 1024 * Pow1024(i - 1)

\* Math.floor(Math.log(bytes) / Math.log(1024)) of a whole number of bytes.
RECURSIVE UnitIndex(_)
UnitIndex(bytes) == IF bytes < 1024 THEN 0 ELSE 1 + UnitIndex(bytes \div 1024)

\* formatBytes (lines 7-14): the value in hundredths of its unit, rounded
\* half up, and the unit.
FormatBytes(bytes) ==
    IF bytes = 0 THEN [hundredths |-> 0, unit |-> "Bytes"]
    ELSE LET i == UnitIndex(bytes)
         IN [hundredths |-> (bytes * 200 + Pow1024(i)) \div (2 * Pow1024(i)),
             unit |-> IF i + 1 \in DOMAIN Sizes THEN Sizes[i + 1] ELSE "undefined"]

\* encodeURIComponent, character by character.
EncodeChar(c) ==
    CASE c = "/" -> "%2F"
      [] c = " " -> "%20"
      [] OTHER -> c
Encode(path) == [i \in DOMAIN path |-> EncodeChar(path[i])]

\* The entries the backend may hold, in its order, and the answers of
\* GET /api/transcriptions: a 2xx response with the first k of them, a
\* non-2xx response ("http"), a rejected fetch ("net").
AllTranscriptions ==
    << [name |-> "b.txt", size |-> 1536, path |-> <<"d", "/", "b.txt">>],
       [name |-> "a.txt", size |-> 0, path |-> <<"a", " ", "1">>],
       [name |-> "c.txt", size |-> 1048576, path |-> <<"c.txt">>],
       [name |-> "d.txt", size |-> 1023, path |-> <<"d.txt">>] >>
TranscriptionLists == {SubSeq(AllTranscriptions, 1, k) : k \in 0..MaxRows}
ListAnswers ==
    {[status |-> "ok", list |-> l] : l \in TranscriptionLists}
    \cup {[status |-> st, list |-> <<>>] : st \in {"http", "net"}}

\* What #completed-transcriptions-body holds: a placeholder row, or one row
\* per entry.
RowsText(kind, items, msg) == [kind |-> kind, items |-> items, msg |-> msg]
Loading == RowsText("Carregando...", <<>>, "")

\* The rows built by the forEach of lines 205-213.
Rows(list) ==
    [i \in DOMAIN list |->
        [name |-> list[i].name, size |-> FormatBytes(list[i].size),
         href |-> Encode(list[i].path)]]

\* What the handler writes when its fetch has settled (lines 196-218).
Settled(resp) ==
    IF resp.status # "ok" THEN RowsText("Erro ao carregar: msg", <<>>, resp.status)
    ELSE IF Len(resp.list) = 0 THEN RowsText("Nenhuma transcricao encontrada.", <<>>, "")
    ELSE RowsText("rows", Rows(resp.list), "")

\* loadCompletedTranscriptions up to its await (lines 186-195).
LoadCompletedTranscriptions ==
    /\ rows' = Loading
    /\ listFetches' = listFetches + 1

\* The 30-second timer (line 632) fires.
ListTick ==
    /\ listTicks < MaxTicks
    /\ listTicks' = listTicks + 1
    /\ LoadCompletedTranscriptions
    /\ UNCHANGED <<listTimeouts, simple, simpleClicks>>
    /\ UNCHANGED <<dashVars, formVars, reactVars>>

\* A timeout set at line 307 fires.
ListTimeout ==
    /\ listTimeouts > 0
    /\ listTimeouts' = listTimeouts - 1
    /\ LoadCompletedTranscriptions
    /\ UNCHANGED <<listTicks, simple, simpleClicks>>
    /\ UNCHANGED <<dashVars, formVars, reactVars>>

\* A pending fetch of the list settles (lines 196-219).
ListSettle(resp) ==
    /\ listFetches > 0
    /\ listFetches' = listFetches - 1
    /\ rows' = Settled(resp)
    /\ UNCHANGED <<listTimeouts, listTicks, simple, simpleClicks>>
    /\ UNCHANGED <<dashVars, formVars, reactVars>>

\* showFeedback(message, type) on #upload-feedback, the message by its
\* template and the value filled in.
SimpleFb(kind, type, v) == [kind |-> kind, type |-> type, v |-> v]

\* The files the user may pick for the simple upload ("": none).
SimpleFiles == {"", "a.mp3", "b.mp3"}

\* The change listener of #file-input (lines 234-243), after the user picked
\* or dropped f.
SimpleChange(f) ==
    /\ f # simple.file
    /\ simple' = [simple EXCEPT
                    !.file = f,
                    !.shown = (f # ""),
                    !.feedback = IF f # ""
                                 THEN SimpleFb("Arquivo selecionado: file", "info", f)
                                 ELSE SimpleFb("", "info", "")]
    /\ UNCHANGED <<listFetches, rows, listTimeouts, listTicks, simpleClicks>>
    /\ UNCHANGED <<dashVars, formVars, reactVars>>

\* The click listener of #submit-btn up to its await (lines 280-298).
SimpleClick ==
    /\ simpleClicks < MaxClicks
    /\ simpleClicks' = simpleClicks + 1
    /\ simple.shown
    /\ ~simple.disabled
    /\ IF simple.file = ""
       THEN simple' = [simple EXCEPT
                         !.feedback = SimpleFb("Nenhum arquivo selecionado.", "error", "")]
       ELSE simple' = [simple EXCEPT
                         !.disabled = TRUE,
                         !.text = "Enviando...",
                         !.feedback = SimpleFb("Enviando arquivo...", "info", ""),
                         !.pc = "post",
                         !.sent = simple.file]
    /\ UNCHANGED <<listFetches, rows, listTimeouts, listTicks>>
    /\ UNCHANGED <<dashVars, formVars, reactVars>>

\* The outcomes of POST /api/upload: a 2xx response with a JSON body; a
\* non-2xx response whose JSON body has a detail, has none, or cannot be
\* parsed; a rejected fetch.
SimpleOutcomes == {"ok", "detail", "nodetail", "badbody", "net"}

SimpleResult(o, file) ==
    CASE o = "ok" -> SimpleFb("Upload bem-sucedido: filename", "success", file)
      [] o = "detail" -> SimpleFb("Erro no upload: detail", "error", "detail")
      [] o = "nodetail" -> SimpleFb("Erro no upload: detail", "error", "statusText")
      [] o = "badbody" -> SimpleFb("Erro de rede: msg", "error", "json error")
      [] o = "net" -> SimpleFb("Erro de rede: msg", "error", "network error")

\* A handler that schedules the refresh in its finally block.
RefreshesAlways(o) == 1

\* The refreshes of the list that the handler schedules (line 307).
Refreshes(o) == IF o = "ok" THEN 1 ELSE 0

\* The POST settles with outcome o (lines 300-318).
SimpleSettle(o) ==
    /\ simple.pc = "post"
    /\ simple' = [simple EXCEPT
                    !.feedback = SimpleResult(o, simple.sent),
                    !.file = IF o = "ok" THEN "" ELSE @,
                    !.shown = IF o = "ok" THEN FALSE ELSE @,
                    !.disabled = FALSE,
                    !.text = "Enviar Arquivo",
                    !.pc = "idle"]
    /\ listTimeouts' = listTimeouts + Refreshes(o)
    /\ UNCHANGED <<listFetches, rows, listTicks, simpleClicks>>
    /\ UNCHANGED <<dashVars, formVars, reactVars>>

\* The list and the simple upload when the page has started: the call at
\* line 628 has written the loading row and its fetch is pending; whether
\* #submit-btn is displayed is up to the page's markup.
ListStart ==
    /\ listFetches = 1
    /\ rows = Loading
    /\ listTimeouts = 0
    /\ listTicks = 0
    /\ simpleClicks = 0
    /\ \E shown \in BOOLEAN :
          simple = [file |-> "", shown |-> shown, disabled |-> FALSE, text |-> "markup",
                    feedback |-> SimpleFb("markup", "", ""), pc |-> "idle", sent |-> ""]

ListNext ==
    \/ ListTick
    \/ ListTimeout
    \/ \E resp \in ListAnswers : ListSettle(resp)
    \/ \E f \in SimpleFiles : SimpleChange(f)
    \/ SimpleClick
    \/ \E o \in SimpleOutcomes : SimpleSettle(o)

ReactStart ==
    /\ rFiles = <<>>
    /\ rUploading = FALSE
    /\ rUploadResults = <<>>
    /\ rError = ""
    /\ rCall = NoCall
    /\ rRequests = <<>>

ReactNext ==
    \/ \E fl \in DropLists : OnDrop(fl)
    \/ \E name \in FileNames : RemoveFile(name)
    \/ HandleUpload
    \/ \E o \in AxiosOutcomes : PostSettle(o)

\* ------------------------- DOMContentLoaded initialisation (lines 621-633)
\* connectSSE() has run (the EventSource exists, or SSE is unsupported) and
\* the first updateDashboardCards() has issued its fetch.
DashStart ==
    /\ display = [f \in Fields |-> Markup]
    /\ esState \in {"unsupported", "connecting"}
    /\ systemStatus = IF esState = "unsupported" THEN Txt("SSE nao suportado") ELSE Markup
    /\ perfList = [kind |-> "markup", items |-> <<>>]
    /\ avgProcessTime = Markup
    /\ pollInflight = {1}
    /\ nextReq = 2
    /\ console = <<>>
    /\ shownReq = [f \in Fields |-> 0]

DashInit == DashStart /\ FormStart /\ ReactStart /\ ListStart /\ ~simple.shown

DashNext ==
    \/ \E ev \in SSEEvents : OnMessage(ev)
    \/ OnError
    \/ SSEOpen
    \/ PollTick
    \/ \E r \in 1..MaxPolls, resp \in PollResponses : PollSettle(r, resp)

SpecDash == DashInit /\ [][DashNext]_vars

\* The form alone: the dashboard stays as the page load left it.
FormInit ==
    FormStart /\ DashStart /\ ReactStart /\ ListStart /\ esState = "connecting"
        /\ ~simple.shown

SpecForm == FormInit /\ [][FormNext]_vars

\* The form where every fetch of the submit handler (line 534) eventually
\* resolves or rejects, so the handler is eventually resumed after each await.
SpecFormLive == SpecForm /\ WF_vars(\E o \in UploadOutcomes : UploadSettle(o))

\* The React page alone.
ReactInit ==
    ReactStart /\ FormStart /\ DashStart /\ ListStart /\ esState = "connecting"
        /\ ~simple.shown

SpecReact == ReactInit /\ [][ReactNext]_vars

\* The React page where every axios.post (line 45) eventually resolves or
\* rejects, so handleUpload is eventually resumed after each await.
SpecReactLive == SpecReact /\ WF_vars(\E o \in AxiosOutcomes : PostSettle(o))

\* The transcription list and the simple upload alone.
ListInit == ListStart /\ DashStart /\ FormStart /\ ReactStart /\ esState = "connecting"

SpecList == ListInit /\ [][ListNext]_vars

\* ------------------------------------------------------ dashboard claims
\* The value a handled payload carries for the element f (Undef: none).
Carried(e, f) ==
    IF ~e.logged THEN Undef
    ELSE IF e.ch = "sse"
    THEN IF f \in SystemFields
         THEN (IF e.data.sse.system.present THEN SysMember(e.data.sse.system, f) ELSE Undef)
         ELSE (IF e.data.sse.queue.present THEN QueueMember(e.data.sse.queue, f) ELSE Undef)
    ELSE IF f \in SystemFields
         THEN (IF e.data.poll.system.present THEN SysMember(e.data.poll.system, f) ELSE Undef)
         ELSE PollMember(e.data.poll, f)

\* The text that shows the number v in the element f.
Format(f, v) == IF f \in SystemFields THEN ToFixed(v.n, Digits(f)) ELSE Str(v)

\* The payloads, in arrival order, that carried a value for f.
Setters(f) == {i \in 1..Len(console) : Carried(console[i], f).t # "undef"}

Max(S) == CHOOSE x \in S : \A y \in S : y <= x

\* No handler run so far ended in its catch block.
NoHandlerFailed == \A i \in 1..Len(console) : ~console[i].failed

\* C1: after any sequence of applied payloads, each element shows the number
\* carried by the payload that most recently carried one for it, whichever
\* channel delivered it, and an element no payload ever carried a value for
\* shows no number.
C1_LastWriteWins ==
    NoHandlerFailed =>
        \A f \in Fields :
            IF Setters(f) = {} THEN ~IsNumber(display[f])
            ELSE LET v == Carried(console[Max(Setters(f))], f)
                 IN v.t = "num" => display[f] = Format(f, v)

\* C2: a handled payload leaves every element it carries nothing for as it
\* was: an element that showed a number still shows that number.
C2_AbsentUntouched ==
    [][(Len(console') = Len(console) + 1 /\ Last(console').logged
            /\ ~Last(console').failed)
        => \A f \in Fields :
             (Carried(Last(console'), f).t = "undef" /\ IsNumber(display[f]))
                => display'[f] = display[f]]_vars

\* C3: an element whose value is unknown (no payload carried a number for it)
\* shows a placeholder, never a number such as 0.
C3_UnknownNotZero ==
    \A f \in Fields :
        (\A i \in 1..Len(console) : Carried(console[i], f).t # "num")
            => ~IsNumber(display[f])

\* C4: at most one polling fetch of /api/status/detailed is in flight.
C4_OnePollInFlight == Cardinality(pollInflight) <= 1

\* C5: an element that shows the value of a polling response is never
\* overwritten by the response of a fetch issued before the one it shows.
C5_PollMonotone ==
    [][\A f \in Fields :
          (shownReq[f] > 0 /\ shownReq'[f] > 0) => shownReq'[f] >= shownReq[f]]_vars

\* ---------------------------------------------- realtime channel: claims
\* The connection state as the page shows it: the code keeps none but the
\* text of #system-status (lines 37-38, 88-93, 103-105).
ConnectionState ==
    IF systemStatus = Txt("Erro na conexao") THEN "Errored"
    ELSE IF systemStatus \in {Txt("Operacional"), Txt("Problemas")} THEN "Live"
    ELSE IF systemStatus = Txt("SSE nao suportado") THEN "Disconnected"
    ELSE "Connecting"

\* C18: the connection state changes only along the edges Disconnected ->
\* Connecting, Connecting -> Live, Live -> Errored, Errored -> Connecting and
\* Errored -> Disconnected.
C18_OnlyDocumentedEdges ==
    [][ConnectionState' # ConnectionState
          => <<ConnectionState, ConnectionState'>> \in
                {<<"Disconnected", "Connecting">>, <<"Connecting", "Live">>,
                 <<"Live", "Errored">>, <<"Errored", "Connecting">>,
                 <<"Errored", "Disconnected">>}]_vars

\* C21: a push payload that fails to parse, or that parses to a value whose
\* members are not what the handler expects, ends in the handler's catch
\* block: the handler returns after logging the error, and the connection
\* state, the status text and the EventSource are as before.
C21_MalformedDiscarded ==
    [][\A ev \in SSEEvents :
          (OnMessage(ev) /\ (~ev.parsed \/ SysThrows(ev.system)))
              => /\ systemStatus' = systemStatus
                 /\ ConnectionState' = ConnectionState
                 /\ esState' = esState
                 /\ Len(console') = Len(console) + 1
                 /\ Last(console').failed]_vars

\* A payload with a workers key and a system member that is no number was
\* discarded while the channel showed no live status.
C21_Witness ==
    /\ ConnectionState # "Live"
    /\ \E i \in DOMAIN console :
          /\ console[i].ch = "sse"
          /\ console[i].failed
          /\ console[i].data.sse.parsed
          /\ console[i].data.sse.workers.present

\* C35: applying one push message is all-or-nothing for the displayed
\* metrics: a message whose handling ends in the catch block, because it does
\* not parse or because a member has an unexpected type, leaves every metric
\* element as it was before the message arrived.
C35_FailedMessageWritesNothing ==
    [][(/\ Len(console') = Len(console) + 1
        /\ Last(console').ch = "sse"
        /\ Last(console').failed)
          => display' = display]_vars

\* C21 as first stated: every payload that fails to parse or parses to a
\* value of the wrong shape, whether or not the handler throws on it, leaves
\* the connection state as it was.
C21_WrongShapeDiscarded ==
    [][\A ev \in SSEEvents :
          (OnMessage(ev)
             /\ (~ev.parsed \/ SysThrows(ev.system) \/ ev.workers = WrongWorkers))
              => ConnectionState' = ConnectionState]_vars

\* C22: the status text, and with it the connection state, is written by
\* the handlers of the realtime channel alone: a step that changes it is a
\* message or a transport error, never a polling tick or a settled polling
\* fetch, whether it succeeded or failed.
C22_StatusOwnedByChannel ==
    [][/\ systemStatus' # systemStatus => (OnError \/ \E ev \in SSEEvents : OnMessage(ev))
       /\ (PollTick \/ \E r \in 1..(MaxPolls + 1), resp \in PollResponses : PollSettle(r, resp))
             => ConnectionState' = ConnectionState]_vars

\* A polling fetch failed after a message had set a live status, and the
\* status is still live.
C22_Witness ==
    /\ ConnectionState = "Live"
    /\ Len(console) = 2
    /\ console[1].ch = "sse"
    /\ console[2].ch = "poll"
    /\ console[2].failed

\* C23: a polling fetch that fails, by a rejected fetch or a non-2xx
\* response, leaves on display every metric value that was displayed before
\* it, whether a push event or an earlier poll had written it.
C23_FailedPollKeepsValues ==
    [][\A r \in 1..(MaxPolls + 1), resp \in PollResponses :
          (PollSettle(r, resp) /\ resp.status # "ok")
              => \A f \in Fields : IsNumber(display[f]) => display'[f] = display[f]]_vars

\* C24: failed polling fetches do not stop the schedule: whatever fetches
\* have failed, the interval tick can still fire and issue the next fetch (up
\* to the number of fetches of a run), and a fetch that then succeeds is
\* applied: the elements it carries numbers for show numbers of that response.
C24_ScheduleSurvivesFailure ==
    /\ [](nextReq <= MaxPolls => ENABLED PollTick)
    /\ [][\A r \in 1..(MaxPolls + 1), resp \in PollResponses :
             (PollSettle(r, resp) /\ ~PollFails(resp))
                 => \A f \in PollValued(resp) :
                        IsNumber(display'[f]) /\ shownReq'[f] = r]_vars

\* The only fetch issued so far has failed and the next tick is due.
C24_Witness ==
    /\ Len(console) = 1
    /\ console[1].ch = "poll"
    /\ console[1].failed
    /\ pollInflight = {}
    /\ nextReq <= MaxPolls

\* C25: polling has issued its first fetch when the page has started, and
\* the interval tick can fire in every state of the realtime channel:
\* connecting, open, closed after an error, and unsupported.
C25_PollsWhateverChannel ==
    /\ 1 \in pollInflight \/ \E i \in DOMAIN console : console[i].ch = "poll"
    /\ nextReq <= MaxPolls => ENABLED PollTick

\* A tick has issued a fetch on a page whose browser has no EventSource.
C25_Witness ==
    /\ esState = "unsupported"
    /\ ConnectionState = "Disconnected"
    /\ nextReq > 2
    /\ pollInflight # {}

\* C19: a successfully parsed message received while Connecting makes the
\* channel Live, whatever keys it carries, and a transport error while Live
\* makes it Errored, whatever the polling fetches do.
C19_LiveOnFirstMessage ==
    [][/\ \A ev \in SSEEvents :
            (OnMessage(ev) /\ ev.parsed /\ ConnectionState = "Connecting")
                => ConnectionState' = "Live"
       /\ (OnError /\ ConnectionState = "Live") => ConnectionState' = "Errored"]_vars

\* C20: after a transport error, a successfully parsed message that arrives
\* over the reconnected EventSource takes the status from Errored to Live,
\* whatever the message carries.
C20_LiveAgainAfterError ==
    [][\A ev \in SSEEvents :
          (OnMessage(ev) /\ ev.parsed /\ ConnectionState = "Errored")
              => ConnectionState' = "Live"]_vars

\* ------------------------------------------------ structured batch: claims
\* The requests that have not settled.
InFlight == {j \in DOMAIN requests : requests[j].outcome = "pending"}

\* C6: a validated batch of n files issues exactly n upload requests, the
\* j-th for the j-th file, whatever the outcomes: while the batch runs, one
\* request for each file up to the current one; once it has ended, one request
\* for every file.  A failure neither ends the loop nor repeats a file.
C6_EveryFileOnce ==
    submits > 0 =>
        /\ Len(requests) = (IF batch.pc = "fetch" THEN batch.i ELSE Len(batch.files))
        /\ \A j \in DOMAIN requests : requests[j].file = batch.files[j]
        /\ \A j, k \in DOMAIN requests : requests[j].file = requests[k].file => j = k

\* A batch of two files has ended whose first file failed.
C6_Witness ==
    /\ submits > 0
    /\ batch.pc = "idle"
    /\ Len(batch.files) = 2
    /\ Len(requests) = 2
    /\ requests[1].outcome = "failed"

\* C8: the upload requests of a batch are issued one after the other in
\* selection order: at most one request is in flight, it is the latest one
\* issued, and every request before it has settled.
C8_OneUploadInFlight ==
    /\ Cardinality(InFlight) <= 1
    /\ \A j \in InFlight : j = Len(requests) /\ batch.pc = "fetch" /\ batch.i = j
    /\ \A j \in DOMAIN requests : requests[j].file = batch.files[j]

\* The request for the second file is in flight, the first has settled.
C8_Witness ==
    /\ Len(requests) = 2
    /\ requests[1].outcome # "pending"
    /\ requests[2].outcome = "pending"

\* C9: a submit whose effective course is empty, or whose effective module is
\* empty, or that has no file, issues no request, shows one validation
\* warning and leaves the submit button enabled.
C9_InvalidRejected ==
    [][(Submit /\ (EffectiveCourse = <<>> \/ EffectiveModule = <<>> \/ Len(files) = 0))
          => /\ requests' = requests
             /\ batch' = batch
             /\ ~submitDisabled'
             /\ feedback'.type = "warning"
             /\ UNCHANGED <<courseFetches, moduleFetches>>]_vars

\* A submit was rejected for its empty course although a module and files
\* were given.
C9_Witness ==
    /\ feedback.kind = "selecione um curso"
    /\ feedback.type = "warning"
    /\ EffectiveCourse = <<>>
    /\ EffectiveModule # <<>>
    /\ files # <<>>
    /\ ~submitDisabled

\* C10: a submit that passes validation resolves the effective course and
\* module by the rule above, and every request of the batch carries them.
C10_EffectiveSent ==
    [][/\ (Submit /\ batch'.pc = "fetch")
            => /\ batch'.targetCourse = EffectiveCourse
               /\ batch'.targetModule = EffectiveModule
       /\ \A j \in DOMAIN requests' :
            /\ requests'[j].course = batch'.targetCourse
            /\ requests'[j].module = batch'.targetModule]_vars

\* C11: the course selection and the trimmed new-course text are never both
\* non-empty, whatever the keystrokes, dropdown changes, submits and list
\* reloads: typing a name clears the selection, selecting clears the text.
C11_CourseExclusive == ~(courseValue # <<>> /\ Trim(newCourseValue) # <<>>)

\* A new course was typed while the module fetch of a selected course was
\* still pending: the selection is gone.
C11_Witness ==
    /\ Trim(newCourseValue) # <<>>
    /\ Len(moduleFetches) > 0
    /\ courseOptions # <<>>
    /\ courseValue = <<>>

\* C12: the module selection and the trimmed new-module text are never both
\* non-empty, also after a course change has reset the module dropdown and
\* after a module list has been loaded.
C12_ModuleExclusive == ~(moduleValue # <<>> /\ Trim(newModuleValue) # <<>>)

\* A new module is typed while the loaded module list offers modules.
C12_Witness ==
    /\ Trim(newModuleValue) # <<>>
    /\ moduleOptions # <<>>
    /\ moduleValue = <<>>
    /\ courseValue # <<>>

\* C13: a keystroke that leaves the new-course text non-empty forces the
\* course dropdown to its empty option and resets and disables the module
\* dropdown; the module dropdown stays disabled only until a course is again
\* effective: a step that is no such keystroke and that starts and ends with
\* an effective course leaves the module dropdown enabled.
C13_DisabledUntilEffective ==
    [][/\ (newCourseValue' # newCourseValue /\ Trim(newCourseValue') # <<>>)
            => /\ courseValue' = <<>>
               /\ moduleOptions' = <<>>
               /\ moduleValue' = <<>>
               /\ moduleDisabled'
       /\ (newCourseValue' = newCourseValue /\ EffectiveCourse # <<>>
                /\ EffectiveCourse' # <<>>)
            => ~moduleDisabled']_vars

\* The step that ends a batch.
BatchEnds == batch.pc = "fetch" /\ batch'.pc = "idle"

\* C14: a batch that ends with every file sent triggers a refresh of the
\* course list, and a refresh of the module list exactly when the course
\* selected at that moment is the effective course of the batch; a batch in
\* which a file failed triggers neither.
C14_RefreshOnSuccess ==
    [][BatchEnds =>
         IF batch'.successCount = Len(batch'.files)
         THEN /\ courseFetches' = courseFetches + 1
              /\ (Len(moduleFetches') = Len(moduleFetches) + 1)
                     <=> (courseValue = batch.effectiveCourse)
         ELSE /\ courseFetches' = courseFetches
              /\ moduleFetches' = moduleFetches]_vars

\* C15: when a batch in which some file failed has ended, the feedback shown
\* holds the failure message of every failed file as well as the aggregate
\* count.
C15_FailuresShown ==
    [][(BatchEnds /\ ~batch'.allSuccess) =>
          /\ feedback'.n = Len(batch'.files)
          /\ \A j \in DOMAIN requests' :
                requests'[j].outcome = "failed" =>
                    /\ feedback'.kind = "Erro ao enviar file: msg"
                    /\ feedback'.file = batch'.files[j]]_vars

\* C27: a 404 answer to the request for the course list or for the module
\* list of a course is an empty list and no error: the dropdown is left with
\* its placeholder option alone, unselected, and the feedback is not touched;
\* any other non-2xx answer is reported in the feedback as an error.
C27_NotFoundIsEmpty ==
    [][/\ courseFetches' < courseFetches =>
            \A resp \in ListResponses(CourseLists) :
               CoursesSettle(resp) =>
                  /\ resp.status = "404" =>
                       /\ courseOptions' = <<>>
                       /\ courseValue' = <<>>
                       /\ feedback' = feedback
                  /\ resp.status = "error" =>
                       /\ feedback'.type = "danger"
                       /\ feedback'.kind = "Erro ao carregar lista de cursos."
       /\ Len(moduleFetches') < Len(moduleFetches) =>
            \A k \in DOMAIN moduleFetches :
             \A resp \in ListResponses(ModuleLists(moduleFetches[k])) :
               ModulesSettle(k, resp) =>
                  /\ resp.status = "404" =>
                       /\ moduleOptions' = <<>>
                       /\ moduleValue' = <<>>
                       /\ feedback' = feedback
                  /\ resp.status = "error" =>
                       /\ feedback'.type = "danger"
                       /\ feedback'.kind = "Erro ao carregar modulos para course."]_vars

\* The course list answered 404 after a batch had shown its summary: the
\* dropdown is empty and the summary is still the feedback.
C27_Witness ==
    /\ coursePlaceholder = "Nenhum curso encontrado"
    /\ courseOptions = <<>>
    /\ feedback.type = "success"
    /\ courseFetches = 0

\* C28: a batch that has passed validation runs to completion.  When every
\* upload request eventually settles, a running batch eventually ends with
\* its summary displayed and the submit button enabled.  While it runs, its
\* file list is fixed, only the settling of its pending request moves it,
\* the settling is always possible, each settling advances it by one file,
\* and it ends only when every file has been attempted, with the summary of
\* full success or partial failure and the button enabled; an edit of the
\* form leaves the batch, its requests and the button as they are.
C28_RunsToCompletion ==
    /\ (batch.pc = "fetch")
          ~> (/\ batch.pc = "idle"
              /\ ~submitDisabled
              /\ feedback = Summary(batch)
              /\ Len(requests) = Len(batch.files))
    /\ [](batch.pc = "fetch" => ENABLED (\E o \in UploadOutcomes : UploadSettle(o)))
    /\ [][batch.pc = "fetch" =>
            /\ batch'.files = batch.files
            /\ submitDisabled
            /\ edits' # edits =>
                  /\ batch' = batch
                  /\ requests' = requests
                  /\ submitDisabled'
            /\ batch' # batch =>
                  /\ batch'.i = batch.i + 1
                  /\ requests'[batch.i].outcome # "pending"
            /\ batch'.pc = "idle" =>
                  /\ batch'.i = Len(batch.files) + 1
                  /\ Len(requests') = Len(batch.files)
                  /\ feedback' = Summary(batch')
                  /\ feedback'.type \in {"success", "danger"}
                  /\ ~submitDisabled']_vars

\* A batch of two files has run to its end although the user emptied the
\* file input while it was running.
C28_Witness ==
    /\ submits > 0
    /\ batch.pc = "idle"
    /\ Len(batch.files) = 2
    /\ Len(requests) = 2
    /\ files = <<>>
    /\ ~submitDisabled
    /\ feedback = Summary(batch)

\* C30: a batch whose destination is a newly typed course is reachable: the
\* user types a new-course name and then provides a module, so while the
\* new-course text holds a name one of the two module inputs is enabled.
C30_NewCourseTakesModule ==
    Trim(newCourseValue) # <<>> => (~moduleDisabled \/ ~newModuleDisabled)

\* What holds instead: every batch starts with a course selected in the
\* dropdown and an empty new-course text, so no request carries a typed
\* course.
C30_BatchesStartFromSelection ==
    [][(batch.pc = "idle" /\ batch'.pc = "fetch") =>
          /\ courseValue # <<>>
          /\ Trim(newCourseValue) = <<>>
          /\ batch'.targetCourse = Trim(courseValue)]_vars

\* C31: in every reachable state the options of the module dropdown are
\* modules of the course selected at that moment: a late answer to the module
\* fetch of a course selected earlier adds nothing to the dropdown.
C31_OptionsOfSelectedCourse ==
    \A i \in DOMAIN moduleOptions :
       /\ courseValue # <<>>
       /\ \E j \in DOMAIN ModulesOf(courseValue) :
             ModulesOf(courseValue)[j] = moduleOptions[i]

\* C32: in every state reached after the first action of the user, the
\* module dropdown and the new-module input are enabled only if the course
\* dropdown has a non-empty selection, also after a batch in which every
\* file was sent, when the course list is reloaded.
C32_ModuleInputsNeedCourse ==
    edits > 0 =>
       ((~moduleDisabled \/ ~newModuleDisabled) => courseValue # <<>>)

\* C33: all requests of one batch carry the same course and module, the pair
\* the handler computed from the inputs when submit was pressed; while the
\* batch runs that pair does not change, whatever the user edits.
C33_SameDestination ==
    [][/\ \A j \in DOMAIN requests' :
             /\ requests'[j].course = batch'.targetCourse
             /\ requests'[j].module = batch'.targetModule
       /\ (batch.pc = "idle" /\ batch'.pc = "fetch") =>
             /\ batch'.targetCourse = TargetCourse
             /\ batch'.targetModule = TargetModule
       /\ batch.pc = "fetch" =>
             /\ batch'.targetCourse = batch.targetCourse
             /\ batch'.targetModule = batch.targetModule]_vars

\* The second request of a batch is pending, and the course inputs no longer
\* resolve to the course of the batch: the user changed them meanwhile.
C33_Witness ==
    /\ batch.pc = "fetch"
    /\ Len(requests) = 2
    /\ requests[2].outcome = "pending"
    /\ TargetCourse # batch.targetCourse
    /\ requests[2].course = batch.targetCourse

\* C34: the submit button is disabled exactly while a validated batch is in
\* progress, so no submit can start while one runs and at most one batch is
\* in progress; a submit rejected by validation starts no batch and leaves
\* the button enabled.
C34_DisabledExactlyInBatch ==
    /\ [](submitDisabled <=> batch.pc = "fetch")
    /\ [](batch.pc = "fetch" => ~ENABLED Submit)
    /\ [][(feedback'.type = "warning" /\ edits' # edits) =>
             /\ ~submitDisabled'
             /\ batch' = batch
             /\ requests' = requests]_vars

\* A batch has run and ended, and a later submit was rejected by validation:
\* the button is enabled.
C34_Witness ==
    /\ submits > 0
    /\ batch.pc = "idle"
    /\ feedback.type = "warning"
    /\ ~submitDisabled

\* C37: the transcription list is fetched anew after a successful simple
\* upload (one refresh is scheduled per successful upload, none after a
\* failed one, and a scheduled refresh can always run) and by its timer,
\* which nothing stops.  A successful answer leaves one row per entry of the
\* answer, in the backend's order.  The element is written by the refresh
\* alone: the loading row when a refresh starts, the rows or the error row
\* when its fetch settles.
C37_ListIsFetchedView ==
    /\ [](listTicks < MaxTicks => ENABLED ListTick)
    /\ [](listTimeouts > 0 => ENABLED ListTimeout)
    /\ [][/\ (simple.pc = "post" /\ simple'.pc = "idle") =>
               listTimeouts' = listTimeouts
                   + (IF simple'.feedback.type = "success" THEN 1 ELSE 0)
          /\ listTimeouts' > listTimeouts =>
               (simple.pc = "post" /\ simple'.feedback.type = "success")
          /\ listFetches' < listFetches =>
               \A resp \in ListAnswers :
                  (ListSettle(resp) /\ resp.status = "ok") =>
                      /\ Len(rows'.items) = Len(resp.list)
                      /\ \A i \in DOMAIN resp.list :
                            rows'.items[i].name = resp.list[i].name
                      /\ rows'.kind \in {"rows", "Nenhuma transcricao encontrada."}
          /\ rows' # rows => listFetches' # listFetches
          /\ listFetches' > listFetches =>
               /\ rows' = Loading
               /\ listFetches' = listFetches + 1
               /\ \/ listTicks' = listTicks + 1
                  \/ listTimeouts' = listTimeouts - 1]_vars

\* The refresh scheduled by a successful upload has run, with the timer
\* silent: its fetch was answered with two entries, shown in their order.
C37_Witness ==
    /\ simple.feedback.type = "success"
    /\ listTicks = 0
    /\ listTimeouts = 0
    /\ listFetches = 0
    /\ rows.kind = "rows"
    /\ Len(rows.items) = 2
    /\ rows.items[1].name = "b.txt"
    /\ rows.items[2].name = "a.txt"

\* C37 as first stated: the displayed list is modified by nothing but a
\* successful fetch.
C37_OnlySuccessfulFetchWrites ==
    [][rows' # rows =>
          \E resp \in ListAnswers : resp.status = "ok" /\ ListSettle(resp)]_vars

\* C26: the step that ends a structured batch triggers a refresh of the
\* transcription list, next to the refresh of the course and module lists.
C26_ListRefreshedAfterBatch ==
    [][BatchEnds => listFetches' = listFetches + 1]_vars

\* The requests of the batch that have succeeded so far.
Succeeded == {j \in DOMAIN requests : requests[j].outcome = "ok"}

C7_OneResultPerFile ==
    /\ rCall.pc = "post" => Len(rCall.results) = rCall.i - 1
    /\ (rCall.pc = "idle" /\ rCall.files # <<>>) =>
          /\ rUploadResults = rCall.results
          /\ Len(rUploadResults) = Len(rCall.files)
    /\ \A i \in DOMAIN rCall.results :
          /\ rCall.results[i].filename = rCall.files[i]
          /\ rCall.results[i].status \in {"success", "error"}
          /\ rCall.results[i].status = "success" <=> rRequests[i].outcome = "ok"

\* C17: submitting one file never raises past the upload: whatever the
\* outcome of the request, exactly one result is added for that file, the
\* call goes on to the next file or ends normally, and no error is raised to
\* the page; the result is a failure whenever the request did not succeed,
\* with the backend's detail as its message when there is one and the
\* generic message otherwise.
C17_OneResultWhateverOutcome ==
    [][\A o \in AxiosOutcomes :
          PostSettle(o) =>
             /\ Len(rCall'.results) = Len(rCall.results) + 1
             /\ SubSeq(rCall'.results, 1, Len(rCall.results)) = rCall.results
             /\ LET r == rCall'.results[Len(rCall'.results)]
                IN /\ r.filename = rCall.files[rCall.i]
                   /\ o = "ok" => r.status = "success"
                   /\ o # "ok" =>
                        /\ r.status = "error"
                        /\ r.message = IF o = "detail" THEN "detail" ELSE "Erro no upload"
             /\ rError' = rError
             /\ rCall'.pc = "post" \/ (rCall'.pc = "idle" /\ ~rUploading')]_vars

\* A call has gathered a failure with the backend's detail and a failure
\* with the generic message.
C17_Witness ==
    \E i, j \in DOMAIN rCall.results :
        /\ rCall.results[i].status = "error"
        /\ rCall.results[i].message = "detail"
        /\ rCall.results[j].status = "error"
        /\ rCall.results[j].message = "Erro no upload"

\* C36: handleUpload called with an empty list sets the error message and
\* issues no request, and the button offers no such call.  A call with a
\* non-empty list always ends, whatever the outcomes, with uploading false,
\* the selection emptied and one result per file of the list it started
\* with; while uploading is true the upload cannot be started again.
C36_UploadAlwaysEnds ==
    /\ [](Len(rFiles) = 0 =>
            /\ ~ENABLED HandleUpload
            /\ ~ENABLED (/\ HandleUploadCall
                         /\ ~(/\ rError' = "Por favor, selecione pelo menos um arquivo"
                              /\ rRequests' = rRequests
                              /\ rUploading' = rUploading)))
    /\ [](rUploading <=> rCall.pc = "post")
    /\ [](rUploading => ~ENABLED HandleUpload)
    /\ rUploading ~> (/\ ~rUploading
                      /\ rFiles = <<>>
                      /\ Len(rUploadResults) = Len(rCall.files))
    /\ [][rUploading =>
            /\ rCall'.files = rCall.files
            /\ ~rUploading' =>
                  /\ rFiles' = <<>>
                  /\ Len(rUploadResults') = Len(rCall.files)
                  /\ \A i \in DOMAIN rCall.files :
                        rUploadResults'[i].filename = rCall.files[i]]_vars

\* A call that started with three files has ended after every request of it
\* failed: three results are published and the selection is empty.
C36_Witness ==
    /\ rCall.pc = "idle"
    /\ ~rUploading
    /\ Len(rCall.files) = 3
    /\ Len(rUploadResults) = 3
    /\ \A i \in 1..3 : rUploadResults[i].status = "error"
    /\ rFiles = <<>>

\* A report of three files was published: success, failure, success.
C7_Witness ==
    /\ rCall.pc = "idle"
    /\ Len(rUploadResults) = 3
    /\ rUploadResults[1].status = "success"
    /\ rUploadResults[2].status = "error"
    /\ rUploadResults[3].status = "success"
    /\ rUploadResults[1].filename # rUploadResults[3].filename

====
